---- MODULE Spec2Model ----
(***************************************************************************)
(* Application & payment reconciliation of the workstream server: the      *)
(* route handlers that write Program, Application and Payment rows.        *)
(* Every database call of a handler is one atomic step; a handler that     *)
(* makes several calls is a small process whose position (pc) and          *)
(* captured reads live in its request slot, so that other requests can     *)
(* run between its calls, as they can between the awaits of the code.      *)
(***************************************************************************)
EXTENDS Integers, Sequences, FiniteSets, TLC

\* ------------------------------------------------------------------ bounds
MaxSlots == 2        \* largest totalSlots a program is given
MaxApps == 2         \* application rows that can be inserted
MaxReqs == 2         \* requests in flight at once
MaxPayments == 2     \* payment rows that can be inserted
MaxTime == 2         \* readings of the clock; 0 stands for a null timestamp

Students == {"s1", "s2"}
Programs == {"p1"}
Reqs == 1..MaxReqs

\* universityAdmin rows: the university and the two permission flags
UniversityAdmins ==
    [ua1 |-> [universityId |-> "u1", canManagePrograms |-> TRUE,
              canReviewApplications |-> TRUE],
     ua2 |-> [universityId |-> "u2", canManagePrograms |-> TRUE,
              canReviewApplications |-> TRUE],
     ua3 |-> [universityId |-> "u1", canManagePrograms |-> FALSE,
              canReviewApplications |-> FALSE]]

\* employerAdmin rows
EmployerAdmins ==
    [ea1 |-> [employerId |-> "e1", canApproveHires |-> TRUE],
     ea2 |-> [employerId |-> "e2", canApproveHires |-> TRUE],
     ea3 |-> [employerId |-> "e1", canApproveHires |-> FALSE]]

\* the university and the employer each program belongs to
ProgramUniversity == [p \in Programs |-> "u1"]
ProgramEmployer == [p \in Programs |-> "e1"]

\* seed data: applicationFee of the fee-charging programs
Fee == 100

ProgramStatuses == {"DRAFT", "OPEN", "CLOSED"}
AppStatuses == {"DRAFT", "SUBMITTED", "UNDER_REVIEW", "SHORTLISTED",
                "INTERVIEW_SCHEDULED", "ACCEPTED", "REJECTED", "ENROLLED",
                "CANCELLED"}

VARIABLES programs,      \* the program table
          applications,  \* the application table, a row's id is its index
          payments,      \* the payment table, a row's id is its index
          provider,      \* the payment provider's transaction per reference
          now,           \* the clock new Date() reads
          reqs,          \* the requests in flight
          last,          \* the response to the latest request, when watched
          watch,         \* the operations whose responses are recorded
          width          \* how many requests the server runs at once

vars == <<programs, applications, payments, provider, now, reqs, last, watch, width>>

env == <<watch, width>>

\* ------------------------------------------------------------ request slots
Idle == [op |-> "idle", pc |-> "idle", by |-> "-", prog |-> "-", app |-> 0,
         pay |-> 0, target |-> "-", seen |-> "-", seenAt |-> 0, fee |-> 0,
         was |-> "-"]

IsIdle(r) == reqs[r].pc = "idle"

\* a new request takes the first free slot (slots are interchangeable)
FreeSlot(r) == IsIdle(r) /\ r <= width /\ \A q \in Reqs : q < r => ~IsIdle(q)

NoResponse == [op |-> "-", by |-> "-", app |-> 0, res |-> "-"]

Response(op, by, app, res) ==
    IF op \in watch THEN [op |-> op, by |-> by, app |-> app, res |-> res]
    ELSE NoResponse

\* the handler of slot r returns: the slot is free again, the response is kept
Respond(r, op, by, app, res) ==
    /\ reqs' = [reqs EXCEPT ![r] = Idle]
    /\ last' = Response(op, by, app, res)
    /\ UNCHANGED env

\* -------------------------------------------------------------- programs
\* db.program.create: availableSlots starts at totalSlots
NewProgram(total, fee, status) ==
    [status |-> status, totalSlots |-> total, availableSlots |-> total,
     applicationFee |-> fee, isPublished |-> (status = "OPEN")]

\* the JSON bodies a program PATCH is tried with: any one column
ProgramPatches ==
    {[status |-> s] : s \in ProgramStatuses}
    \cup {[totalSlots |-> n] : n \in 1..MaxSlots}
    \cup {[availableSlots |-> n] : n \in (-1)..MaxSlots}
    \cup {[applicationFee |-> f] : f \in {0, Fee}}

\* prisma update with data: { ...data }: the columns named in data are written
ApplyPatch(row, data) ==
    [f \in DOMAIN row |-> IF f \in DOMAIN data THEN data[f] ELSE row[f]]

\* PATCH /admin/programs/:id
AdminPatchProgram(p, data) ==
    /\ programs' = [programs EXCEPT ![p] = ApplyPatch(programs[p], data)]
    /\ last' = Response("adminPatchProgram", "admin", 0, "OK")
    /\ UNCHANGED <<applications, payments, provider, now, reqs, env>>

\* PATCH /university/programs/:id: the admin may manage programs and the
\* program belongs to the admin's university (both rows are never rewritten
\* here, so the two lookups and the update are taken as one step)
UniversityPatchProgram(ua, p, data) ==
    /\ UniversityAdmins[ua].canManagePrograms
    /\ ProgramUniversity[p] = UniversityAdmins[ua].universityId
    /\ programs' = [programs EXCEPT ![p] = ApplyPatch(programs[p], data)]
    /\ last' = Response("universityPatchProgram", ua, 0, "OK")
    /\ UNCHANGED <<applications, payments, provider, now, reqs, env>>

\* PATCH /programs/:id/status: writes status and isPublished when given
StatusPatches ==
    {[status |-> s] : s \in ProgramStatuses}
    \cup {[isPublished |-> b] : b \in BOOLEAN}

PatchProgramStatus(p, data) ==
    /\ programs' = [programs EXCEPT ![p] = ApplyPatch(programs[p], data)]
    /\ last' = Response("patchProgramStatus", "admin", 0, "OK")
    /\ UNCHANGED <<applications, payments, provider, now, reqs, env>>

\* POST /university/programs/:id/publish: toggles isPublished, OPEN when published
PublishProgram(ua, p) ==
    /\ UniversityAdmins[ua].canManagePrograms
    /\ ProgramUniversity[p] = UniversityAdmins[ua].universityId
    /\ programs' = [programs EXCEPT ![p] =
            [@ EXCEPT !.isPublished = ~programs[p].isPublished,
                      !.status = IF ~programs[p].isPublished THEN "OPEN" ELSE "DRAFT"]]
    /\ last' = Response("publishProgram", ua, 0, "OK")
    /\ UNCHANGED <<applications, payments, provider, now, reqs, env>>

\* ------------------------------------------------------------ applications
AppIds == 1..Len(applications)

\* the rows a lookup by the compound key (studentId, programId) matches
ByStudentProgram(apps, s, p) ==
    {a \in 1..Len(apps) : apps[a].studentId = s /\ apps[a].programId = p}

\* the unique index behind the studentId_programId key rejects a second row
NoUniqueIndex(apps, s, p) == TRUE

UniqueStudentProgram(apps, s, p) == ByStudentProgram(apps, s, p) = {}

NewApplication(s, p) ==
    [studentId |-> s, programId |-> p, status |-> "DRAFT", submittedAt |-> 0]

\* program.availableSlots <= 0
NoSlotsWhenBelowZero(program) == program.availableSlots < 0

NoSlotsLeft(program) == program.availableSlots <= 0

\* POST /applications, first call: db.program.findUnique and the two checks
CreateFindProgram(r, s, p) ==
    /\ FreeSlot(r)
    /\ UNCHANGED <<programs, applications, payments, provider, now>>
    /\ IF programs[p].status # "OPEN"
       THEN Respond(r, "create", s, 0, "NotAccepting")
       ELSE IF NoSlotsLeft(programs[p])
       THEN Respond(r, "create", s, 0, "NoSlots")
       ELSE /\ reqs' = [reqs EXCEPT ![r] =
                    [Idle EXCEPT !.op = "create", !.pc = "findExisting",
                                 !.by = s, !.prog = p]]
            /\ UNCHANGED <<last, env>>

\* second call: db.application.findUnique by (studentId, programId)
CreateFindExisting(r) ==
    /\ reqs[r].op = "create" /\ reqs[r].pc = "findExisting"
    /\ UNCHANGED <<programs, applications, payments, provider, now>>
    /\ IF ByStudentProgram(applications, reqs[r].by, reqs[r].prog) # {}
       THEN Respond(r, "create", reqs[r].by, 0, "AlreadyApplied")
       ELSE /\ reqs' = [reqs EXCEPT ![r].pc = "insert"]
            /\ UNCHANGED <<last, env>>

\* third call: db.application.create; a unique-index violation is thrown and
\* answered by the error handler as a database error
CreateInsert(r) ==
    /\ reqs[r].op = "create" /\ reqs[r].pc = "insert"
    /\ Len(applications) < MaxApps
    /\ UNCHANGED <<programs, payments, provider, now>>
    /\ IF UniqueStudentProgram(applications, reqs[r].by, reqs[r].prog)
       THEN /\ applications' = Append(applications,
                                      NewApplication(reqs[r].by, reqs[r].prog))
            /\ Respond(r, "create", reqs[r].by, Len(applications) + 1, "Created")
       ELSE /\ UNCHANGED applications
            /\ Respond(r, "create", reqs[r].by, 0, "DatabaseError")

\* the COMPLETED payments linked to application a
CompletedPayments(pays, a) ==
    {i \in 1..Len(pays) : pays[i].applicationId = a /\ pays[i].status = "COMPLETED"}

\* application.program.applicationFee > 0
FeeDueAboveSeedFee(program) == program.applicationFee > Fee

FeeDue(program) == program.applicationFee > 0

\* POST /applications/:id/submit, first call: db.application.findFirst by
\* (id, studentId) with its program, then the status check and the fee branch
SubmitFindApplication(r, s, a) ==
    /\ FreeSlot(r)
    /\ UNCHANGED <<programs, applications, payments, provider, now>>
    /\ IF a \notin AppIds \/ applications[a].studentId # s
       THEN Respond(r, "submit", s, a, "NotFound")
       ELSE IF applications[a].status # "DRAFT"
       THEN Respond(r, "submit", s, a, "AlreadySubmitted")
       ELSE /\ reqs' = [reqs EXCEPT ![r] =
                    [Idle EXCEPT !.op = "submit", !.by = s, !.app = a,
                                 !.seen = applications[a].status,
                                 !.pc = IF FeeDue(programs[applications[a].programId])
                                        THEN "findPayment" ELSE "update"]]
            /\ UNCHANGED <<last, env>>

\* second call, only when a fee is due: db.payment.findFirst COMPLETED
SubmitFindPayment(r) ==
    /\ reqs[r].op = "submit" /\ reqs[r].pc = "findPayment"
    /\ UNCHANGED <<programs, applications, payments, provider, now>>
    /\ IF CompletedPayments(payments, reqs[r].app) = {}
       THEN Respond(r, "submit", reqs[r].by, reqs[r].app, "PaymentRequired")
       ELSE /\ reqs' = [reqs EXCEPT ![r].pc = "update"]
            /\ UNCHANGED <<last, env>>

\* last call: db.application.update where { id }
SubmitUpdate(r) ==
    /\ reqs[r].op = "submit" /\ reqs[r].pc = "update"
    /\ applications' = [applications EXCEPT ![reqs[r].app] =
            [@ EXCEPT !.status = "SUBMITTED", !.submittedAt = now]]
    /\ Respond(r, "submit", reqs[r].by, reqs[r].app, "Submitted")
    /\ UNCHANGED <<programs, payments, provider, now>>

\* PATCH /applications/:id/review: any user with a universityAdmin row; the
\* status of the body is written as given
ReviewApplication(r, u, a, status) ==
    /\ FreeSlot(r)
    /\ UNCHANGED <<programs, payments, provider, now>>
    /\ IF u \notin DOMAIN UniversityAdmins
       THEN /\ UNCHANGED applications
            /\ Respond(r, "review", u, a, "NotAuthorized")
       ELSE IF a \notin AppIds
       THEN /\ UNCHANGED applications
            /\ Respond(r, "review", u, a, "DatabaseError")
       ELSE /\ applications' = [applications EXCEPT ![a].status = status]
            /\ Respond(r, "review", u, a, "OK")

\* the statuses updateApplicationSchema lets through
UniversityTargets == {"UNDER_REVIEW", "SHORTLISTED", "INTERVIEW_SCHEDULED",
                      "ACCEPTED", "REJECTED"}

\* PATCH /university/applications/:id, up to db.application.findFirst scoped
\* to the admin's university
UniversityFindApplication(r, ua, a, status) ==
    /\ FreeSlot(r)
    /\ UNCHANGED <<programs, applications, payments, provider, now>>
    /\ IF ~UniversityAdmins[ua].canReviewApplications
       THEN Respond(r, "universityUpdate", ua, a, "NotAuthorized")
       ELSE IF \/ a \notin AppIds
               \/ ProgramUniversity[applications[a].programId]
                     # UniversityAdmins[ua].universityId
       THEN Respond(r, "universityUpdate", ua, a, "NotFound")
       ELSE /\ reqs' = [reqs EXCEPT ![r] =
                    [Idle EXCEPT !.op = "universityUpdate", !.pc = "update",
                                 !.by = ua, !.app = a, !.target = status,
                                 !.seen = applications[a].status]]
            /\ UNCHANGED <<last, env>>

\* db.application.update where { id } with the requested status
UniversityUpdateApplication(r) ==
    /\ reqs[r].op = "universityUpdate" /\ reqs[r].pc = "update"
    /\ applications' = [applications EXCEPT ![reqs[r].app].status = reqs[r].target]
    /\ Respond(r, "universityUpdate", reqs[r].by, reqs[r].app, "OK")
    /\ UNCHANGED <<programs, payments, provider, now>>

\* decision APPROVE writes ACCEPTED, REJECT writes REJECTED
DecisionStatus(decision) == IF decision = "APPROVE" THEN "ACCEPTED" ELSE "REJECTED"

\* PATCH /employer/candidates/:id, up to db.application.findFirst scoped to
\* the admin's employer
EmployerFindCandidate(r, ea, a, decision) ==
    /\ FreeSlot(r)
    /\ UNCHANGED <<programs, applications, payments, provider, now>>
    /\ IF ~EmployerAdmins[ea].canApproveHires
       THEN Respond(r, "employerDecide", ea, a, "NotAuthorized")
       ELSE IF \/ a \notin AppIds
               \/ ProgramEmployer[applications[a].programId]
                     # EmployerAdmins[ea].employerId
       THEN Respond(r, "employerDecide", ea, a, "NotFound")
       ELSE /\ reqs' = [reqs EXCEPT ![r] =
                    [Idle EXCEPT !.op = "employerDecide", !.pc = "update",
                                 !.by = ea, !.app = a,
                                 !.target = DecisionStatus(decision),
                                 !.seen = applications[a].status]]
            /\ UNCHANGED <<last, env>>

EmployerUpdateCandidate(r) ==
    /\ reqs[r].op = "employerDecide" /\ reqs[r].pc = "update"
    /\ applications' = [applications EXCEPT ![reqs[r].app].status = reqs[r].target]
    /\ Respond(r, "employerDecide", reqs[r].by, reqs[r].app, "OK")
    /\ UNCHANGED <<programs, payments, provider, now>>

\* POST /employer/candidates/:id/interview: any employerAdmin row will do
InterviewFindCandidate(r, ea, a) ==
    /\ FreeSlot(r)
    /\ UNCHANGED <<programs, applications, payments, provider, now>>
    /\ IF \/ a \notin AppIds
          \/ ProgramEmployer[applications[a].programId] # EmployerAdmins[ea].employerId
       THEN Respond(r, "employerInterview", ea, a, "NotFound")
       ELSE /\ reqs' = [reqs EXCEPT ![r] =
                    [Idle EXCEPT !.op = "employerInterview", !.pc = "update",
                                 !.by = ea, !.app = a,
                                 !.target = "INTERVIEW_SCHEDULED",
                                 !.seen = applications[a].status]]
            /\ UNCHANGED <<last, env>>

InterviewUpdateCandidate(r) ==
    /\ reqs[r].op = "employerInterview" /\ reqs[r].pc = "update"
    /\ applications' = [applications EXCEPT ![reqs[r].app].status = reqs[r].target]
    /\ Respond(r, "employerInterview", reqs[r].by, reqs[r].app, "OK")
    /\ UNCHANGED <<programs, payments, provider, now>>

\* --------------------------------------------------------------- payments
PayIds == 1..Len(payments)

\* a row of the payment table; a deleted row keeps its id and is never reused
NewPayment(s, a, amount) ==
    [studentId |-> s, applicationId |-> a, amount |-> amount,
     status |-> "PENDING", paidAt |-> 0, providerRef |-> 0]

PaymentExists(pays, i) == i \in 1..Len(pays) /\ pays[i].status # "DELETED"

\* POST /payments/initialize, first call: db.application.findFirst by
\* (id, studentId) with its program
InitializeFindApplication(r, s, a) ==
    /\ FreeSlot(r)
    /\ UNCHANGED <<programs, applications, payments, provider, now>>
    /\ IF a \notin AppIds \/ applications[a].studentId # s
       THEN Respond(r, "initialize", s, a, "NotFound")
       ELSE /\ reqs' = [reqs EXCEPT ![r] =
                    [Idle EXCEPT !.op = "initialize", !.pc = "findCompleted",
                                 !.by = s, !.app = a,
                                 !.fee = programs[applications[a].programId].applicationFee]]
            /\ UNCHANGED <<last, env>>

\* amount <= 0
NothingToPayBelowZero(amount) == amount < 0

NothingToPay(amount) == amount <= 0

\* second call: db.payment.findFirst COMPLETED, then the amount check
InitializeFindCompleted(r) ==
    /\ reqs[r].op = "initialize" /\ reqs[r].pc = "findCompleted"
    /\ UNCHANGED <<programs, applications, payments, provider, now>>
    /\ IF CompletedPayments(payments, reqs[r].app) # {}
       THEN Respond(r, "initialize", reqs[r].by, reqs[r].app, "AlreadyPaid")
       ELSE IF NothingToPay(reqs[r].fee)
       THEN Respond(r, "initialize", reqs[r].by, reqs[r].app, "NoPaymentRequired")
       ELSE /\ reqs' = [reqs EXCEPT ![r].pc = "createPayment"]
            /\ UNCHANGED <<last, env>>

\* third call: db.payment.create in PENDING
InitializeCreatePayment(r) ==
    /\ reqs[r].op = "initialize" /\ reqs[r].pc = "createPayment"
    /\ Len(payments) < MaxPayments
    /\ payments' = Append(payments, NewPayment(reqs[r].by, reqs[r].app, reqs[r].fee))
    /\ reqs' = [reqs EXCEPT ![r].pc = "provider", ![r].pay = Len(payments) + 1]
    /\ UNCHANGED <<programs, applications, provider, now, last, env>>

\* the fetch of /transaction/initialize with reference payment.id:
\*   "ok"      the provider opens the transaction and answers status true
\*   "refused" the provider answers status false
\*   "throws"  fetch or json() throws; the handler has no catch, so the error
\*             handler answers and the rest of the handler is not run
ProviderOutcomes == {"ok", "refused", "throws"}

InitializeProvider(r, outcome) ==
    /\ reqs[r].op = "initialize" /\ reqs[r].pc = "provider"
    /\ UNCHANGED <<programs, applications, payments, now>>
    /\ CASE outcome = "ok" ->
              /\ provider' = [provider EXCEPT ![reqs[r].pay] = "pending"]
              /\ reqs' = [reqs EXCEPT ![r].pc = "storeRef"]
              /\ UNCHANGED <<last, env>>
         [] outcome = "refused" ->
              /\ reqs' = [reqs EXCEPT ![r].pc = "cleanup"]
              /\ UNCHANGED <<provider, last, env>>
         [] outcome = "throws" ->
              /\ Respond(r, "initialize", reqs[r].by, reqs[r].app, "InternalError")
              /\ UNCHANGED provider

\* db.payment.delete of the pending row
InitializeCleanup(r) ==
    /\ reqs[r].op = "initialize" /\ reqs[r].pc = "cleanup"
    /\ payments' = [payments EXCEPT ![reqs[r].pay].status = "DELETED"]
    /\ Respond(r, "initialize", reqs[r].by, reqs[r].app, "ProviderFailed")
    /\ UNCHANGED <<programs, applications, provider, now>>

\* db.payment.update providerRef: the provider echoes the reference it was given
InitializeStoreRef(r) ==
    /\ reqs[r].op = "initialize" /\ reqs[r].pc = "storeRef"
    /\ payments' = [payments EXCEPT ![reqs[r].pay].providerRef = reqs[r].pay]
    /\ Respond(r, "initialize", reqs[r].by, reqs[r].app, "Initialized")
    /\ UNCHANGED <<programs, applications, provider, now>>

\* the customer pays, or the transaction fails, at the provider
ProviderSettle(i, outcome) ==
    /\ provider[i] = "pending"
    /\ provider' = [provider EXCEPT ![i] = outcome]
    /\ UNCHANGED <<programs, applications, payments, now, reqs, last, env>>

\* GET /payments/verify/:reference, the fetch of /transaction/verify: the
\* provider may be unreachable (throws), may not know the reference (status
\* false), or reports the transaction as it stands
ApiNeverRefuses(ref) == FALSE

\* !paystackData.status: the provider does not know the reference
ApiRefuses(ref) == provider[ref] = "none"

VerifyFetch(r, u, ref, reachable) ==
    /\ FreeSlot(r)
    /\ UNCHANGED <<programs, applications, payments, provider, now>>
    /\ IF ~reachable
       THEN Respond(r, "verify", u, 0, "InternalError")
       ELSE IF ApiRefuses(ref)
       THEN Respond(r, "verify", u, 0, "VerificationFailed")
       ELSE /\ reqs' = [reqs EXCEPT ![r] =
                    [Idle EXCEPT !.op = "verify", !.pc = "updatePayment",
                                 !.by = u, !.pay = ref, !.target = provider[ref]]]
            /\ UNCHANGED <<last, env>>

\* the payment row verify writes for the transaction status the provider reports
VerifiedPaymentKeepsPaidAt(row, report, t) ==
    [row EXCEPT !.status = IF report = "success" THEN "COMPLETED" ELSE "FAILED",
                !.paidAt = IF report = "success" THEN t ELSE row.paidAt]

VerifiedPayment(row, report, t) ==
    [row EXCEPT !.status = IF report = "success" THEN "COMPLETED" ELSE "FAILED",
                !.paidAt = IF report = "success" THEN t ELSE 0]

\* the application row verify writes from the application it read with the payment
VerifiedApplication(row, seen, seenAt, t) ==
    [row EXCEPT !.status = IF seen = "DRAFT" THEN "SUBMITTED" ELSE seen,
                !.submittedAt = IF seen = "DRAFT" THEN t ELSE seenAt]

\* db.payment.update where { id } with include application; was keeps the
\* status the row had before the update (history: the handler does not read it)
VerifyUpdatePayment(r) ==
    /\ reqs[r].op = "verify" /\ reqs[r].pc = "updatePayment"
    /\ UNCHANGED <<programs, applications, provider, now>>
    /\ IF ~PaymentExists(payments, reqs[r].pay)
       THEN /\ UNCHANGED payments
            /\ Respond(r, "verify", reqs[r].by, 0, "DatabaseError")
       ELSE LET a == payments[reqs[r].pay].applicationId IN
            /\ payments' = [payments EXCEPT ![reqs[r].pay] =
                    VerifiedPayment(@, reqs[r].target, now)]
            /\ IF reqs[r].target = "success"
               THEN /\ reqs' = [reqs EXCEPT ![r].pc = "updateApplication",
                                            ![r].app = a,
                                            ![r].was = payments[reqs[r].pay].status,
                                            ![r].seen = applications[a].status,
                                            ![r].seenAt = applications[a].submittedAt]
                    /\ UNCHANGED <<last, env>>
               ELSE Respond(r, "verify", reqs[r].by, a, "VerifiedFailed")

\* db.application.update where { id } from the application read with the payment
VerifyUpdateApplication(r) ==
    /\ reqs[r].op = "verify" /\ reqs[r].pc = "updateApplication"
    /\ applications' = [applications EXCEPT ![reqs[r].app] =
            VerifiedApplication(@, reqs[r].seen, reqs[r].seenAt, now)]
    /\ Respond(r, "verify", reqs[r].by, reqs[r].app, "VerifiedCompleted")
    /\ UNCHANGED <<programs, payments, provider, now>>

\* the events of a webhook body and the bodies a request can carry
Events == {"charge.success", "charge.failed"}

Bodies == [event : Events, reference : 1..MaxPayments]

\* PAYSTACK_SECRET_KEY and a key that is not it
Secret == "sk_provider"
OtherKey == "sk_other"

\* createHmac("sha512", key).update(body).digest("hex"): a keyed hash, taken
\* as collision free, so it is the pair of what went into it
Hmac(key, body) == [key |-> key, body |-> body]

\* the value of a header that was not sent
NoSignature == [key |-> "-", body |-> [event |-> "-", reference |-> 0]]

\* the events the provider has reason to sign and push: the outcome of each
\* settled transaction (it may deliver one any number of times)
ProviderEvents ==
    {b \in Bodies : \/ b.event = "charge.success" /\ provider[b.reference] = "success"
                    \/ b.event = "charge.failed" /\ provider[b.reference] = "failed"}

\* the x-paystack-signature headers a request with body b can arrive with: none,
\* a hash under another key, or any hash the provider has made
Signatures(b) ==
    {NoSignature, Hmac(OtherKey, b)} \cup {Hmac(Secret, e) : e \in ProviderEvents}

\* hash !== signature
MissingSignature(body, signature) == signature = NoSignature

BadSignature(body, signature) == Hmac(Secret, body) # signature

\* POST /payments/webhook with a signature that is not the HMAC of the body
WebhookReject(r, body, signature) ==
    /\ FreeSlot(r)
    /\ BadSignature(body, signature)
    /\ Respond(r, "webhook", "provider", 0, "InvalidSignature")
    /\ UNCHANGED <<programs, applications, payments, provider, now>>

\* an authentic event other than charge.success is acknowledged and dropped
WebhookIgnore(r, body, signature) ==
    /\ FreeSlot(r)
    /\ ~BadSignature(body, signature)
    /\ body.event # "charge.success"
    /\ Respond(r, "webhook", "provider", 0, "Received")
    /\ UNCHANGED <<programs, applications, payments, provider, now>>

\* the payment row the webhook writes for charge.success
ChargedPayment(row, t) == [row EXCEPT !.status = "COMPLETED", !.paidAt = t]

\* the application row the webhook writes when it found the application DRAFT
ChargedApplication(row, t) == [row EXCEPT !.status = "SUBMITTED", !.submittedAt = t]

\* an authentic charge.success event: db.payment.update where { id }; was keeps
\* the status the row had before the update (history: the handler does not read it)
WebhookUpdatePayment(r, body, signature) ==
    /\ FreeSlot(r)
    /\ ~BadSignature(body, signature)
    /\ body.event = "charge.success"
    /\ UNCHANGED <<programs, applications, provider, now>>
    /\ LET ref == body.reference IN
       IF ~PaymentExists(payments, ref)
       THEN /\ UNCHANGED payments
            /\ Respond(r, "webhook", "provider", 0, "DatabaseError")
       ELSE /\ payments' = [payments EXCEPT ![ref] = ChargedPayment(@, now)]
            /\ reqs' = [reqs EXCEPT ![r] =
                    [Idle EXCEPT !.op = "webhook", !.pc = "findPayment",
                                 !.by = "provider", !.pay = ref,
                                 !.was = payments[ref].status]]
            /\ UNCHANGED <<last, env>>

\* db.payment.findUnique with include application
WebhookFindPayment(r) ==
    /\ reqs[r].op = "webhook" /\ reqs[r].pc = "findPayment"
    /\ UNCHANGED <<programs, applications, payments, provider, now>>
    /\ LET a == payments[reqs[r].pay].applicationId IN
       IF PaymentExists(payments, reqs[r].pay) /\ applications[a].status = "DRAFT"
       THEN /\ reqs' = [reqs EXCEPT ![r].pc = "updateApplication", ![r].app = a,
                                    ![r].seen = applications[a].status]
            /\ UNCHANGED <<last, env>>
       ELSE Respond(r, "webhook", "provider", a, "Received")

\* db.application.update where { id }
WebhookUpdateApplication(r) ==
    /\ reqs[r].op = "webhook" /\ reqs[r].pc = "updateApplication"
    /\ applications' = [applications EXCEPT ![reqs[r].app] =
            ChargedApplication(@, now)]
    /\ Respond(r, "webhook", "provider", reqs[r].app, "Received")
    /\ UNCHANGED <<programs, payments, provider, now>>

\* time passes between two readings of new Date()
Tick ==
    /\ now < MaxTime
    /\ now' = now + 1
    /\ UNCHANGED <<programs, applications, payments, provider, reqs, last, env>>

\* the tables of a fresh deployment with its programs created
Fresh(progs) ==
    /\ programs \in [Programs -> progs]
    /\ applications = <<>>
    /\ payments = <<>>
    /\ provider = [i \in 1..MaxPayments |-> "none"]
    /\ now = 1
    /\ reqs = [r \in Reqs |-> Idle]
    /\ last = NoResponse

AllOps == {"create", "submit", "review", "universityUpdate", "employerDecide",
           "employerInterview", "initialize", "verify", "webhook",
           "adminPatchProgram", "universityPatchProgram", "patchProgramStatus",
           "publishProgram"}

Init ==
    /\ Fresh({NewProgram(t, f, s) :
                t \in 1..MaxSlots, f \in {0, Fee}, s \in {"DRAFT", "OPEN"}})
    /\ watch = AllOps
    /\ width = MaxReqs

Users == Students \cup DOMAIN UniversityAdmins \cup DOMAIN EmployerAdmins

ProgramNext ==
    \/ \E p \in Programs, d \in ProgramPatches : AdminPatchProgram(p, d)
    \/ \E ua \in DOMAIN UniversityAdmins, p \in Programs, d \in ProgramPatches :
          UniversityPatchProgram(ua, p, d)
    \/ \E p \in Programs, d \in StatusPatches : PatchProgramStatus(p, d)
    \/ \E ua \in DOMAIN UniversityAdmins, p \in Programs : PublishProgram(ua, p)

CreateNext ==
    \/ \E r \in Reqs, s \in Students, p \in Programs : CreateFindProgram(r, s, p)
    \/ \E r \in Reqs : CreateFindExisting(r)
    \/ \E r \in Reqs : CreateInsert(r)

SubmitNext ==
    \/ \E r \in Reqs, s \in Students, a \in 1..MaxApps : SubmitFindApplication(r, s, a)
    \/ \E r \in Reqs : SubmitFindPayment(r)
    \/ \E r \in Reqs : SubmitUpdate(r)

ReviewNext ==
    \/ \E r \in Reqs, u \in Users, a \in 1..MaxApps, st \in AppStatuses :
          ReviewApplication(r, u, a, st)
    \/ \E r \in Reqs, ua \in DOMAIN UniversityAdmins, a \in 1..MaxApps,
          st \in UniversityTargets : UniversityFindApplication(r, ua, a, st)
    \/ \E r \in Reqs : UniversityUpdateApplication(r)
    \/ \E r \in Reqs, ea \in DOMAIN EmployerAdmins, a \in 1..MaxApps,
          d \in {"APPROVE", "REJECT"} : EmployerFindCandidate(r, ea, a, d)
    \/ \E r \in Reqs : EmployerUpdateCandidate(r)
    \/ \E r \in Reqs, ea \in DOMAIN EmployerAdmins, a \in 1..MaxApps :
          InterviewFindCandidate(r, ea, a)
    \/ \E r \in Reqs : InterviewUpdateCandidate(r)

PaymentNext ==
    \/ \E r \in Reqs, s \in Students, a \in 1..MaxApps : InitializeFindApplication(r, s, a)
    \/ \E r \in Reqs : InitializeFindCompleted(r)
    \/ \E r \in Reqs : InitializeCreatePayment(r)
    \/ \E r \in Reqs, o \in ProviderOutcomes : InitializeProvider(r, o)
    \/ \E r \in Reqs : InitializeCleanup(r)
    \/ \E r \in Reqs : InitializeStoreRef(r)
    \/ \E i \in 1..MaxPayments, o \in {"success", "failed"} : ProviderSettle(i, o)
    \/ \E r \in Reqs, u \in Students, ref \in 1..MaxPayments, ok \in BOOLEAN :
          VerifyFetch(r, u, ref, ok)
    \/ \E r \in Reqs : VerifyUpdatePayment(r)
    \/ \E r \in Reqs : VerifyUpdateApplication(r)
    \/ \E r \in Reqs, b \in Bodies : \E s \in Signatures(b) : WebhookReject(r, b, s)
    \/ \E r \in Reqs, b \in Bodies : \E s \in Signatures(b) : WebhookIgnore(r, b, s)
    \/ \E r \in Reqs, b \in Bodies : \E s \in Signatures(b) :
          WebhookUpdatePayment(r, b, s)
    \/ \E r \in Reqs : WebhookFindPayment(r)
    \/ \E r \in Reqs : WebhookUpdateApplication(r)

Next ==
    \/ ProgramNext
    \/ CreateNext
    \/ SubmitNext
    \/ ReviewNext
    \/ PaymentNext
    \/ Tick

\* the whole server
Spec == Init /\ [][Next]_vars

\* programs and the creation of applications
SlotInit ==
    /\ Fresh({NewProgram(t, f, s) :
                t \in 1..MaxSlots, f \in {0, Fee}, s \in {"DRAFT", "OPEN"}})
    /\ watch = {"create"}
    /\ width = MaxReqs

SlotNext ==
    \/ ProgramNext
    \/ CreateNext

SlotSpec == SlotInit /\ [][SlotNext]_vars

\* concurrent creation against an OPEN program with one slot left
RaceInit ==
    /\ Fresh({NewProgram(1, f, "OPEN") : f \in {0, Fee}})
    /\ watch = {"create"}
    /\ width = MaxReqs

RaceSpec == RaceInit /\ [][CreateNext]_vars

\* the life of one application, created by s1 in an OPEN program, and its payments
OneDraft(f) ==
    /\ programs = [p \in Programs |-> NewProgram(MaxSlots, f, "OPEN")]
    /\ applications = <<NewApplication("s1", "p1")>>
    /\ payments = <<>>
    /\ provider = [i \in 1..MaxPayments |-> "none"]
    /\ now = 1
    /\ reqs = [r \in Reqs |-> Idle]
    /\ last = NoResponse

LifeNext ==
    \/ SubmitNext
    \/ ReviewNext
    \/ PaymentNext

\* submission, one request at a time
SubmitInit ==
    /\ \E f \in {0, Fee} : OneDraft(f)
    /\ watch = {"submit"}
    /\ width = 1

SubmitSpec == SubmitInit /\ [][LifeNext]_vars

\* the reviewers' status updates and submission, one request at a time
ReviewInit ==
    /\ \E f \in {0, Fee} : OneDraft(f)
    /\ watch = {"review", "universityUpdate", "employerDecide", "employerInterview"}
    /\ width = 1

StatusNext ==
    \/ SubmitNext
    \/ ReviewNext

ReviewSpec == ReviewInit /\ [][StatusNext]_vars

\* the transitions that read the application before they write it, running
\* concurrently
ConcurrentInit ==
    /\ \E f \in {0, Fee} : OneDraft(f)
    /\ watch = {}
    /\ width = MaxReqs

ConcurrentNext ==
    \/ SubmitNext
    \/ \E r \in Reqs, ua \in DOMAIN UniversityAdmins, a \in 1..MaxApps,
          st \in UniversityTargets : UniversityFindApplication(r, ua, a, st)
    \/ \E r \in Reqs : UniversityUpdateApplication(r)
    \/ \E r \in Reqs, ea \in DOMAIN EmployerAdmins, a \in 1..MaxApps,
          d \in {"APPROVE", "REJECT"} : EmployerFindCandidate(r, ea, a, d)
    \/ \E r \in Reqs : EmployerUpdateCandidate(r)
    \/ \E r \in Reqs, ea \in DOMAIN EmployerAdmins, a \in 1..MaxApps :
          InterviewFindCandidate(r, ea, a)
    \/ \E r \in Reqs : InterviewUpdateCandidate(r)

ConcurrentSpec == ConcurrentInit /\ [][ConcurrentNext]_vars

\* the payments of one DRAFT application of a fee-charging program, one
\* request at a time, while the clock runs
PayInit ==
    /\ OneDraft(Fee)
    /\ watch = {"webhook"}
    /\ width = 1

PayNext ==
    \/ PaymentNext
    \/ Tick

PaySpec == PayInit /\ [][PayNext]_vars

\* the same payments with requests running concurrently
PayRaceInit ==
    /\ OneDraft(Fee)
    /\ watch = {}
    /\ width = MaxReqs

PayRaceSpec == PayRaceInit /\ [][PaymentNext]_vars

\* initialize and what follows it, one request at a time, for a program with
\* or without a fee
InitializeInit ==
    /\ \E f \in {0, Fee} : OneDraft(f)
    /\ watch = {"initialize"}
    /\ width = 1

InitializeSpec == InitializeInit /\ [][PaymentNext]_vars

\* an OPEN program with one slot, and everything students and the provider
\* can do with it, one request at a time
ScenarioInit ==
    /\ Fresh({NewProgram(1, f, "OPEN") : f \in {0, Fee}})
    /\ watch = {"create", "submit"}
    /\ width = 1

ScenarioNext ==
    \/ CreateNext
    \/ SubmitNext
    \/ PaymentNext

ScenarioSpec == ScenarioInit /\ [][ScenarioNext]_vars

\* the payment routes, one request at a time, with verify observed
VerifyInit ==
    /\ OneDraft(Fee)
    /\ watch = {"verify"}
    /\ width = 1

VerifySpec == VerifyInit /\ [][PayNext]_vars

\* the tables after s1's initialize of application 1 has returned: payment 1
\* is PENDING with its reference, the provider's transaction is open
OnePending ==
    /\ programs = [p \in Programs |-> NewProgram(MaxSlots, Fee, "OPEN")]
    /\ applications = <<NewApplication("s1", "p1")>>
    /\ payments = <<[NewPayment("s1", 1, Fee) EXCEPT !.providerRef = 1]>>
    /\ provider = [i \in 1..MaxPayments |-> IF i = 1 THEN "pending" ELSE "none"]
    /\ now = 1
    /\ reqs = [r \in Reqs |-> Idle]
    /\ last = NoResponse

\* the provider settles the transaction; verify and the webhook report it
FinalizeNext ==
    \/ \E i \in 1..MaxPayments, o \in {"success", "failed"} : ProviderSettle(i, o)
    \/ \E r \in Reqs, u \in Students, ref \in 1..MaxPayments, ok \in BOOLEAN :
          VerifyFetch(r, u, ref, ok)
    \/ \E r \in Reqs : VerifyUpdatePayment(r)
    \/ \E r \in Reqs : VerifyUpdateApplication(r)
    \/ \E r \in Reqs, b \in Bodies : \E s \in Signatures(b) : WebhookReject(r, b, s)
    \/ \E r \in Reqs, b \in Bodies : \E s \in Signatures(b) : WebhookIgnore(r, b, s)
    \/ \E r \in Reqs, b \in Bodies : \E s \in Signatures(b) :
          WebhookUpdatePayment(r, b, s)
    \/ \E r \in Reqs : WebhookFindPayment(r)
    \/ \E r \in Reqs : WebhookUpdateApplication(r)

\* the provider delivers its event for transaction i
WebhookDelivers(i) ==
    \E r \in Reqs, b \in Bodies :
        /\ b \in ProviderEvents /\ b.reference = i
        /\ \/ WebhookIgnore(r, b, Hmac(Secret, b))
           \/ WebhookUpdatePayment(r, b, Hmac(Secret, b))

\* a handler that has started takes its next step
HandlerRuns ==
    \E r \in Reqs :
        \/ VerifyUpdatePayment(r)
        \/ VerifyUpdateApplication(r)
        \/ WebhookFindPayment(r)
        \/ WebhookUpdateApplication(r)

LiveInit ==
    /\ OnePending
    /\ watch = {"webhook"}
    /\ width = MaxReqs

\* reports with fair webhook delivery: the provider keeps delivering the event
\* of a settled transaction, and every started handler runs to its end
WebhookLiveSpec ==
    /\ LiveInit
    /\ [][FinalizeNext]_vars
    /\ WF_vars(HandlerRuns)
    /\ \A i \in 1..MaxPayments : SF_vars(WebhookDelivers(i))

\* verify and the webhook running concurrently with the university's status
\* updates on the application the payment is for
FinalizeRaceInit ==
    /\ OnePending
    /\ watch = {}
    /\ width = MaxReqs

FinalizeRaceNext ==
    \/ FinalizeNext
    \/ \E r \in Reqs, ua \in DOMAIN UniversityAdmins, a \in 1..MaxApps,
          st \in UniversityTargets : UniversityFindApplication(r, ua, a, st)
    \/ \E r \in Reqs : UniversityUpdateApplication(r)

FinalizeRaceSpec == FinalizeRaceInit /\ [][FinalizeRaceNext]_vars

\* ------------------------------------------------------------------ claims
ProgramApplications(p) ==
    {a \in AppIds : applications[a].programId = p}

\* the responses that stand for SlotError::Unavailable
SlotUnavailable == {"NotAccepting", "NoSlots"}

\* C1: against an OPEN program with one slot left, at most one create creates
\* an application, a create by a student without an application fails only
\* with Unavailable, and once an application exists available is 0.
C1_OneCreateWins ==
    \A p \in Programs :
        /\ Cardinality(ProgramApplications(p)) <= 1
        /\ ProgramApplications(p) # {} => programs[p].availableSlots = 0
        /\ (last.op = "create" /\ last.res # "Created"
              /\ ByStudentProgram(applications, last.by, p) = {})
             => last.res \in SlotUnavailable

\* C2: every program has 0 <= availableSlots <= totalSlots.
C2_SlotsWithinCapacity ==
    \A p \in Programs :
        /\ 0 <= programs[p].availableSlots
        /\ programs[p].availableSlots <= programs[p].totalSlots

\* a step that reserves one slot of p for a newly inserted application
Reserves(p) ==
    /\ Len(applications') = Len(applications) + 1
    /\ applications'[Len(applications')].programId = p
    /\ programs'[p].availableSlots = programs[p].availableSlots - 1

\* a step that releases the slot of an application of p that becomes CANCELLED
Releases(p) ==
    /\ \E a \in AppIds :
          /\ applications[a].programId = p
          /\ applications[a].status # "CANCELLED"
          /\ applications'[a].status = "CANCELLED"
    /\ programs'[p].availableSlots = programs[p].availableSlots + 1

\* C3: a step changes a program's availableSlots only by reserving a slot for
\* a new application or releasing the slot of a cancelled one.
C3_OnlyAllocatorWritesSlots ==
    [][\A p \in Programs :
          programs'[p].availableSlots # programs[p].availableSlots
            => Reserves(p) \/ Releases(p)]_vars

\* the step in which the create of slot r returns
CreateReturns(r) ==
    /\ \/ reqs[r].op = "create"
       \/ \E s \in Students, p \in Programs : CreateFindProgram(r, s, p)
    /\ reqs'[r].pc = "idle"

\* C4: a create that inserts an application takes exactly one slot of its
\* program, and a create that fails leaves every program as it was.
C4_CreateTakesOneSlot ==
    [][\A r \in Reqs :
          CreateReturns(r) =>
            IF Len(applications') > Len(applications)
            THEN LET p == applications'[Len(applications')].programId IN
                 programs'[p].availableSlots = programs[p].availableSlots - 1
            ELSE programs' = programs]_vars

\* C5: a create that finds its program with availableSlots = 0 or a status
\* other than OPEN answers Unavailable, inserts nothing and changes no table.
C5_UnavailableRejected ==
    [][\A r \in Reqs, s \in Students, p \in Programs :
          (CreateFindProgram(r, s, p)
             /\ (programs[p].availableSlots = 0 \/ programs[p].status # "OPEN"))
          => /\ last' = [op |-> "create", by |-> s, app |-> 0, res |-> last'.res]
             /\ last'.res \in SlotUnavailable
             /\ reqs'[r].pc = "idle"
             /\ UNCHANGED <<programs, applications, payments, provider>>]_vars

\* an OPEN program without slots has just turned a create down
C5_Witness ==
    /\ last.op = "create" /\ last.res = "NoSlots"
    /\ \E p \in Programs :
          programs[p].status = "OPEN" /\ programs[p].availableSlots = 0
    /\ applications = <<>>

\* C6: for each (student, program) at most one application is not CANCELLED.
C6_OneApplicationPerStudentProgram ==
    \A s \in Students, p \in Programs :
        Cardinality({a \in ByStudentProgram(applications, s, p) :
                        applications[a].status # "CANCELLED"}) <= 1

\* two creates of one student ran together: the second insert was refused
C6_Witness ==
    /\ last.op = "create" /\ last.res = "DatabaseError"
    /\ \E p \in Programs : ByStudentProgram(applications, last.by, p) # {}

\* the step in which the submit of application a by student s returns
SubmitReturns(r, s, a) ==
    /\ \/ reqs[r].op = "submit" /\ reqs[r].by = s /\ reqs[r].app = a
       \/ SubmitFindApplication(r, s, a)
    /\ reqs'[r].pc = "idle"

\* C7: with one request at a time, the submit of an owned application answers
\* AlreadySubmitted and changes nothing when the status is not DRAFT, answers
\* PaymentRequired and changes nothing when it is DRAFT, the program's fee is
\* above 0 and no COMPLETED payment is linked, and otherwise sets SUBMITTED
\* and stamps submittedAt with the clock, changing nothing else.
C7_SubmitIsPaymentGated ==
    [][\A r \in Reqs, s \in Students, a \in AppIds :
          (SubmitReturns(r, s, a) /\ applications[a].studentId = s) =>
            LET row == applications[a]
                fee == programs[row.programId].applicationFee
                same == UNCHANGED <<programs, applications, payments, provider>>
            IN  /\ last'.op = "submit" /\ last'.by = s /\ last'.app = a
                /\ IF row.status # "DRAFT"
                   THEN last'.res = "AlreadySubmitted" /\ same
                   ELSE IF fee > 0 /\ CompletedPayments(payments, a) = {}
                   THEN last'.res = "PaymentRequired" /\ same
                   ELSE /\ last'.res = "Submitted"
                        /\ applications' = [applications EXCEPT ![a] =
                               [row EXCEPT !.status = "SUBMITTED", !.submittedAt = now]]
                        /\ now > 0
                        /\ UNCHANGED <<programs, payments, provider>>]_vars

\* a submit was turned down for a fee-charging program whose only payments
\* are not COMPLETED, and the application is still a DRAFT without a stamp
C7_Witness ==
    /\ last.op = "submit" /\ last.res = "PaymentRequired"
    /\ applications[last.app].status = "DRAFT"
    /\ applications[last.app].submittedAt = 0
    /\ programs[applications[last.app].programId].applicationFee > 0
    /\ \E i \in PayIds : payments[i].applicationId = last.app
                          /\ payments[i].status \in {"PENDING", "FAILED"}

\* the statuses an application has once it is submitted
PastDraft == {"SUBMITTED", "UNDER_REVIEW", "SHORTLISTED", "INTERVIEW_SCHEDULED",
              "ACCEPTED", "REJECTED", "ENROLLED"}

\* C8: an application of a fee-charging program that is SUBMITTED or further
\* has a linked COMPLETED payment.
C8_PastDraftIsPaid ==
    \A a \in AppIds :
        (programs[applications[a].programId].applicationFee > 0
           /\ applications[a].status \in PastDraft)
        => CompletedPayments(payments, a) # {}

\* the step in which slot r, having read the application's status, writes it
TransitionApplied(r) ==
    /\ reqs[r].pc \in {"update", "updateApplication"}
    /\ reqs'[r].pc = "idle"
    /\ applications'[reqs[r].app].status # applications[reqs[r].app].status

\* C9: a transition is applied only while the application still has the
\* status the request observed; of two requests that observed the same status
\* the second finds it changed and writes nothing.
C9_LoserWritesNothing ==
    [][\A r \in Reqs :
          TransitionApplied(r) => applications[reqs[r].app].status = reqs[r].seen]_vars

\* the edges of the application state graph: forward moves, and withdrawal
\* from DRAFT and SUBMITTED
LegalEdges ==
    {<<"DRAFT", "SUBMITTED">>, <<"SUBMITTED", "UNDER_REVIEW">>,
     <<"DRAFT", "CANCELLED">>, <<"SUBMITTED", "CANCELLED">>,
     <<"UNDER_REVIEW", "SHORTLISTED">>, <<"UNDER_REVIEW", "INTERVIEW_SCHEDULED">>,
     <<"UNDER_REVIEW", "ACCEPTED">>, <<"UNDER_REVIEW", "REJECTED">>,
     <<"SHORTLISTED", "INTERVIEW_SCHEDULED">>, <<"SHORTLISTED", "ACCEPTED">>,
     <<"SHORTLISTED", "REJECTED">>, <<"INTERVIEW_SCHEDULED", "ACCEPTED">>,
     <<"INTERVIEW_SCHEDULED", "REJECTED">>, <<"ACCEPTED", "ENROLLED">>,
     <<"REJECTED", "ENROLLED">>}

ReviewerOps == {"review", "universityUpdate", "employerDecide", "employerInterview"}

\* the step in which a reviewer's status update returns
ReviewerReturns(r) ==
    /\ \/ reqs[r].op \in ReviewerOps
       \/ \E u \in Users, a \in 1..MaxApps, st \in AppStatuses :
             ReviewApplication(r, u, a, st)
       \/ \E ua \in DOMAIN UniversityAdmins, a \in 1..MaxApps, st \in UniversityTargets :
             UniversityFindApplication(r, ua, a, st)
       \/ \E ea \in DOMAIN EmployerAdmins, a \in 1..MaxApps :
             \/ InterviewFindCandidate(r, ea, a)
             \/ \E d \in {"APPROVE", "REJECT"} : EmployerFindCandidate(r, ea, a, d)
    /\ reqs'[r].pc = "idle"

\* C10: a reviewer's status update changes an application's status only along
\* an edge of the state graph; for any other edge the application is unchanged.
C10_AdvanceFollowsGraph ==
    [][\A r \in Reqs, a \in AppIds :
          (ReviewerReturns(r) /\ applications'[a] # applications[a])
          => <<applications[a].status, applications'[a].status>> \in LegalEdges]_vars

\* the statuses a decision is taken from
Decidable == {"UNDER_REVIEW", "SHORTLISTED", "INTERVIEW_SCHEDULED"}

\* C11: no step takes an application from ACCEPTED to REJECTED or from
\* REJECTED to ACCEPTED, and a step that makes it ACCEPTED or REJECTED finds it
\* UNDER_REVIEW, SHORTLISTED or INTERVIEW_SCHEDULED.
C11_DecisionsExclusive ==
    [][\A a \in AppIds :
          LET old == applications[a].status
              new == applications'[a].status
          IN  /\ ~(old = "ACCEPTED" /\ new = "REJECTED")
              /\ ~(old = "REJECTED" /\ new = "ACCEPTED")
              /\ (new \in {"ACCEPTED", "REJECTED"} /\ new # old) => old \in Decidable]_vars

\* C12: a step makes an application CANCELLED only from DRAFT or SUBMITTED,
\* releasing one slot of its program, and never as a reviewer's status update.
C12_OnlyCancelCancels ==
    [][\A a \in AppIds :
          (applications'[a].status = "CANCELLED" /\ applications[a].status # "CANCELLED")
          => /\ applications[a].status \in {"DRAFT", "SUBMITTED"}
             /\ Releases(applications[a].programId)
             /\ ~\E r \in Reqs : ReviewerReturns(r)]_vars

\* review authority over program p: an admin of the program's university with
\* canReviewApplications, or an admin of the program's employer
ReviewAuthority(u, p) ==
    \/ /\ u \in DOMAIN UniversityAdmins
       /\ UniversityAdmins[u].universityId = ProgramUniversity[p]
       /\ UniversityAdmins[u].canReviewApplications
    \/ /\ u \in DOMAIN EmployerAdmins
       /\ EmployerAdmins[u].employerId = ProgramEmployer[p]

\* C13: a reviewer's status update by a principal without review authority
\* over the application's program is refused and leaves the application as
\* it was.
C13_ReviewNeedsAuthority ==
    [][\A r \in Reqs, a \in AppIds :
          (ReviewerReturns(r) /\ last'.app = a
             /\ ~ReviewAuthority(last'.by, applications[a].programId))
          => /\ applications'[a] = applications[a]
             /\ last'.res \in {"NotAuthorized", "NotFound"}]_vars

\* the step in which the verify or the webhook of slot r returns
FinalizeReturns(r) ==
    /\ reqs[r].op \in {"verify", "webhook"}
    /\ reqs'[r].pc = "idle"

\* C14: a report that leaves a COMPLETED or FAILED payment in the status it
\* had leaves its paidAt as it was, and a finalize that found the payment
\* already COMPLETED does not touch the application again.
C14_FinalizeIdempotent ==
    [][/\ \A i \in PayIds :
             (payments[i].status \in {"COMPLETED", "FAILED"}
                /\ payments'[i].status = payments[i].status)
             => payments'[i].paidAt = payments[i].paidAt
       /\ \A r \in Reqs :
             (FinalizeReturns(r) /\ reqs[r].was = "COMPLETED")
             => UNCHANGED applications]_vars

\* C15: a payment that is COMPLETED stays COMPLETED and keeps its paidAt,
\* whatever report is applied afterwards and however requests interleave.
C15_CompletedStays ==
    [][\A i \in PayIds :
          payments[i].status = "COMPLETED"
          => /\ payments'[i].status = "COMPLETED"
             /\ payments'[i].paidAt # 0]_vars

\* C16: the status of a payment changes only from PENDING, to COMPLETED or to
\* FAILED (or the PENDING row is deleted by initialize's rollback).
C16_TerminalPayments ==
    [][\A i \in PayIds :
          payments'[i].status # payments[i].status
          => /\ payments[i].status = "PENDING"
             /\ payments'[i].status \in {"COMPLETED", "FAILED", "DELETED"}]_vars

\* C17: every application has at most one COMPLETED payment.
C17_OneCompletedPayment ==
    \A a \in AppIds : Cardinality(CompletedPayments(payments, a)) <= 1

\* C18: a verify or a webhook that took the payment from PENDING to COMPLETED
\* returns without having changed the application.
C18_FinalizeLeavesApplication ==
    [][\A r \in Reqs :
          (FinalizeReturns(r) /\ reqs[r].was = "PENDING")
          => UNCHANGED applications]_vars

\* GET /payments/verify/:reference run alone in the current state for a
\* transaction the provider reports as report: the tables it leaves
ViaVerify(ref, report) ==
    LET a == payments[ref].applicationId
        row == applications[a]
    IN  <<[payments EXCEPT ![ref] = VerifiedPayment(@, report, now)],
          IF report = "success"
          THEN [applications EXCEPT ![a] =
                   VerifiedApplication(@, row.status, row.submittedAt, now)]
          ELSE applications>>

\* POST /payments/webhook run alone in the current state with the provider's
\* event for the same report: the tables it leaves
ViaWebhook(ref, report) ==
    LET a == payments[ref].applicationId
    IN  IF report # "success"
        THEN <<payments, applications>>
        ELSE <<[payments EXCEPT ![ref] = ChargedPayment(@, now)],
               IF applications[a].status = "DRAFT"
               THEN [applications EXCEPT ![a] = ChargedApplication(@, now)]
               ELSE applications>>

\* C19: in every state, for every payment and every outcome the provider
\* reports for it, verify and an authentic webhook leave the same tables.
C19_ChannelsAgree ==
    \A ref \in PayIds :
        (PaymentExists(payments, ref) /\ provider[ref] \in {"success", "failed"})
        => ViaVerify(ref, provider[ref]) = ViaWebhook(ref, provider[ref])

\* the step in which a webhook request with this body and header is received
WebhookReceives(r, body, signature) ==
    \/ WebhookReject(r, body, signature)
    \/ WebhookIgnore(r, body, signature)
    \/ WebhookUpdatePayment(r, body, signature)

\* C20: a webhook request whose signature header is not the keyed hash of its
\* body under the secret, a missing header included, is answered
\* InvalidSignature at once and changes no table.
C20_BadSignatureRejected ==
    [][\A r \in Reqs, b \in Bodies : \A s \in Signatures(b) :
          (WebhookReceives(r, b, s) /\ s # Hmac(Secret, b))
          => /\ last' = [op |-> "webhook", by |-> "provider", app |-> 0,
                         res |-> "InvalidSignature"]
             /\ reqs'[r].pc = "idle"
             /\ UNCHANGED <<programs, applications, payments, provider>>]_vars

\* a request was turned away for its signature while a paid transaction was
\* waiting to be recorded: the payment is still PENDING
C20_Witness ==
    /\ last.op = "webhook" /\ last.res = "InvalidSignature"
    /\ \E i \in PayIds : payments[i].status = "PENDING" /\ provider[i] = "success"

\* the step in which the initialize of slot r returns an error after it has
\* inserted its payment: the provider call threw, or the provider refused
InitializeFails(r) ==
    /\ reqs[r].op = "initialize"
    /\ reqs[r].pc \in {"provider", "cleanup"}
    /\ reqs'[r].pc = "idle"

\* C21: when initialize has inserted its payment and the provider call then
\* fails, the payment is gone when the error is returned.
C21_InitializeRollsBack ==
    [][\A r \in Reqs :
          InitializeFails(r) => ~PaymentExists(payments', reqs[r].pay)]_vars

\* C22: while no initialize is running, every stored payment has its provider
\* reference.
C22_NoPaymentWithoutReference ==
    (\A r \in Reqs : reqs[r].op # "initialize")
    => \A i \in PayIds : PaymentExists(payments, i) => payments[i].providerRef # 0

\* the step in which the initialize of slot r returns before inserting a payment
InitializeRefuses(r) ==
    /\ \/ \E s \in Students, a \in 1..MaxApps : InitializeFindApplication(r, s, a)
       \/ reqs[r].op = "initialize" /\ reqs[r].pc = "findCompleted"
    /\ reqs'[r].pc = "idle"

\* C23: with one request at a time, initialize inserts a payment, PENDING,
\* only for an application that exists and belongs to the caller, whose
\* program has a fee above 0 and which has no COMPLETED payment; an
\* initialize that returns before that inserts no payment and calls no
\* provider, and answers AlreadyPaid when a COMPLETED payment exists.
C23_InitializePreconditions ==
    [][\A r \in Reqs :
          /\ (reqs[r].op = "initialize" /\ Len(payments') > Len(payments))
             => LET a == reqs[r].app
                    s == reqs[r].by
                IN  /\ a \in AppIds
                    /\ applications[a].studentId = s
                    /\ programs[applications[a].programId].applicationFee > 0
                    /\ CompletedPayments(payments, a) = {}
                    /\ payments' = Append(payments,
                          NewPayment(s, a, programs[applications[a].programId].applicationFee))
                    /\ payments'[Len(payments')].status = "PENDING"
          /\ InitializeRefuses(r)
             => /\ UNCHANGED <<programs, applications, payments, provider>>
                /\ last'.op = "initialize"
                /\ last'.res \in {"NotFound", "AlreadyPaid", "NoPaymentRequired"}
                /\ (reqs[r].op = "initialize"
                      /\ CompletedPayments(payments, reqs[r].app) # {})
                   => last'.res = "AlreadyPaid"]_vars

\* a second initialize for a paid application was answered AlreadyPaid and
\* the paid payment is still the only one
C23_Witness ==
    /\ last.op = "initialize" /\ last.res = "AlreadyPaid"
    /\ Len(payments) = 1
    /\ payments[1].status = "COMPLETED" /\ payments[1].applicationId = last.app

\* the step in which the webhook of slot r returns after its payment update
WebhookReturns(r) ==
    /\ reqs[r].op = "webhook"
    /\ reqs'[r].pc = "idle"

\* C24: the scenario, step by step, for an OPEN program with total 1,
\* available 1 and fee 100: the first create succeeds and takes the slot; a
\* create by the other student is then turned down as Unavailable; the first
\* charge.success webhook leaves the payment COMPLETED and the application
\* as it was; the owner's submit of the paid DRAFT succeeds and stamps
\* submittedAt; a second webhook changes nothing.
C24_Scenario ==
    [][\A r \in Reqs, p \in Programs :
          (programs[p].applicationFee = Fee /\ programs[p].totalSlots = 1
             /\ programs[p].status = "OPEN")
          => /\ (CreateReturns(r) /\ applications = <<>>
                    /\ programs[p].availableSlots = 1)
                => /\ last'.res = "Created"
                   /\ Len(applications') = 1
                   /\ programs'[p].availableSlots = 0
             /\ (CreateReturns(r) /\ Len(applications) = 1
                    /\ last'.by # applications[1].studentId)
                => /\ last'.res \in SlotUnavailable
                   /\ UNCHANGED applications
             /\ (WebhookReturns(r) /\ reqs[r].was = "PENDING")
                => /\ payments'[reqs[r].pay].status = "COMPLETED"
                   /\ UNCHANGED applications
             /\ \A s \in Students, a \in AppIds :
                   (SubmitReturns(r, s, a) /\ applications[a].studentId = s
                      /\ applications[a].status = "DRAFT"
                      /\ CompletedPayments(payments, a) # {})
                   => /\ last'.res = "Submitted"
                      /\ applications'[a].status = "SUBMITTED"
                      /\ applications'[a].submittedAt # 0
             /\ (WebhookReturns(r) /\ reqs[r].was = "COMPLETED")
                => /\ payments'[reqs[r].pay] = payments[reqs[r].pay]
                   /\ UNCHANGED applications]_vars

\* the step in which a request a student made returns
StudentReturns(r) ==
    /\ \/ reqs[r].op \in {"submit", "initialize", "verify"}
       \/ \E s \in Students, a \in 1..MaxApps :
             SubmitFindApplication(r, s, a) \/ InitializeFindApplication(r, s, a)
       \/ \E s \in Students, ref \in 1..MaxPayments, ok \in BOOLEAN :
             VerifyFetch(r, s, ref, ok)
    /\ reqs'[r].pc = "idle"

\* C25: a submit or an initialize by a student who does not own the
\* application is turned down at once and changes no table, and a request made
\* by a student changes an application's status only when it is the owner's
\* submit, which makes it SUBMITTED.
C25_StudentsActOnTheirOwn ==
    [][\A r \in Reqs :
          /\ \A s \in Students, a \in AppIds :
                ((SubmitFindApplication(r, s, a) \/ InitializeFindApplication(r, s, a))
                   /\ applications[a].studentId # s)
                => /\ reqs'[r].pc = "idle"
                   /\ UNCHANGED <<programs, applications, payments, provider>>
          /\ \A a \in AppIds :
                (StudentReturns(r) /\ applications'[a].status # applications[a].status)
                => /\ reqs[r].op = "submit"
                   /\ reqs[r].by = applications[a].studentId
                   /\ applications'[a].status = "SUBMITTED"]_vars

\* C26: a verify whose call to the provider throws, or is answered with an
\* unsuccessful response, returns an error at once and changes no table.
C26_VerifyUnavailable ==
    [][\A r \in Reqs, u \in Students, ref \in 1..MaxPayments, ok \in BOOLEAN :
          (VerifyFetch(r, u, ref, ok) /\ (~ok \/ provider[ref] = "none"))
          => /\ last'.op = "verify"
             /\ last'.res \in {"InternalError", "VerificationFailed"}
             /\ reqs'[r].pc = "idle"
             /\ UNCHANGED <<programs, applications, payments, provider>>]_vars

\* a verify failed on the provider while a paid transaction was waiting to
\* be recorded: the payment is still PENDING and the application still DRAFT
C26_Witness ==
    /\ last.op = "verify" /\ last.res = "InternalError"
    /\ \E i \in PayIds :
          /\ payments[i].status = "PENDING" /\ payments[i].paidAt = 0
          /\ provider[i] = "success"
          /\ applications[payments[i].applicationId].status = "DRAFT"

\* the stored status that matches the provider's outcome of transaction i
Reconciled(i) ==
    /\ i \in PayIds
    /\ payments[i].status = IF provider[i] = "success" THEN "COMPLETED" ELSE "FAILED"

\* C27: a PENDING payment whose transaction the provider has settled
\* eventually has the status that matches the provider's outcome.
C27_EventuallyReconciled ==
    \A i \in 1..MaxPayments :
        (i \in PayIds /\ payments[i].status = "PENDING"
           /\ provider[i] \in {"success", "failed"})
        ~> Reconciled(i)

\* the lifecycle order of the application statuses
Rank ==
    [st \in AppStatuses |->
        CASE st = "DRAFT" -> 0
          [] st = "SUBMITTED" -> 1
          [] st = "UNDER_REVIEW" -> 2
          [] st = "SHORTLISTED" -> 3
          [] st = "INTERVIEW_SCHEDULED" -> 4
          [] st \in {"ACCEPTED", "REJECTED"} -> 5
          [] st = "ENROLLED" -> 6
          [] st = "CANCELLED" -> 7]

\* C28: the step in which a verify or a webhook returns never leaves an
\* application with a status earlier in the lifecycle than the one it had.
C28_FinalizeNeverMovesBack ==
    [][\A r \in Reqs, a \in AppIds :
          FinalizeReturns(r)
          => Rank[applications'[a].status] >= Rank[applications[a].status]]_vars

\* C29: an application that is SUBMITTED or further has submittedAt set, and
\* a DRAFT application has it unset.
C29_SubmittedAtFollowsStatus ==
    \A a \in AppIds :
        /\ applications[a].status \in PastDraft => applications[a].submittedAt # 0
        /\ applications[a].status = "DRAFT" => applications[a].submittedAt = 0

\* C30: a stored payment has paidAt set exactly when its status is COMPLETED.
C30_PaidAtIffCompleted ==
    \A i \in PayIds :
        PaymentExists(payments, i)
        => (payments[i].paidAt # 0 <=> payments[i].status = "COMPLETED")

\* a failure report was written over a payment whose transaction succeeded,
\* and paidAt went with it, while another payment is COMPLETED with its paidAt
C30_Witness ==
    \E i, j \in PayIds :
        /\ payments[i].status = "FAILED" /\ payments[i].paidAt = 0
        /\ provider[i] = "success"
        /\ payments[j].status = "COMPLETED" /\ payments[j].paidAt # 0

====
